---- MODULE Spec2Model ----
(***************************************************************************)
(* Forward model of a polarisation light-field microscope:                 *)
(* BirefringentRaytraceLFM (birefringence_implementations.py).             *)
(* Spec is the ray tracer on its own; ForwardSpec is ForwardModel          *)
(* (simulations.py) driving it.                                            *)
(*                                                                         *)
(* Numbers.  Birefringence is an integer count of a fixed unit; an optic   *)
(* axis is a pair (axis, d2) standing for the real vector axis/sqrt(d2),   *)
(* so "unit length" is axis.axis = d2, the zero vector is axis = 0 with    *)
(* d2 # 0 and d2 = 0 is the result of a division by a zero norm (NaN).     *)
(* Jones matrices are 2x2 matrices of Gaussian integers: retardances are   *)
(* multiples of pi and azimuths multiples of pi/4, which keeps every       *)
(* product exact and keeps the algebra non-commutative.                    *)
(***************************************************************************)
EXTENDS Integers, Sequences, FiniteSets, TLC

\* ------------------------------------------------------------------ bounds
MaxMicroLenses == 3
MaxVoxelsPerMl == 2
MaxVoxelSpan   == 2
MaxSeed        == 1
PixelsPerMl    == 2

\* ------------------------------------------------------- generic helpers
Dot(a, b) == a[1] * b[1] + a[2] * b[2] + a[3] * b[3]

floor_half(n) == n \div 2

\* positions (1-based) of the TRUE entries of a boolean mask, in order
RECURSIVE MaskPositions(_, _)
MaskPositions(mask, from) ==
    IF from > Len(mask) THEN <<>>
    ELSE IF mask[from] THEN <<from>> \o MaskPositions(mask, from + 1)
         ELSE MaskPositions(mask, from + 1)

\* tensor[mask]: the rows selected by a boolean mask, compacted
MaskSelect(t, mask) ==
    LET pos == MaskPositions(mask, 1) IN [r \in 1..Len(pos) |-> t[pos[r]]]

\* number of TRUE entries before position k (rank of k inside the mask)
MaskRank(mask, k) == Len(MaskPositions(SubSeq(mask, 1, k), 1))

\* tensor[mask] = values: rows of the mask are overwritten, in order
MaskAssign_leading(t, mask, values) ==
    [k \in 1..Len(t) |-> IF k <= Len(values) THEN values[k] ELSE t[k]]

MaskAssign(t, mask, values) ==
    [k \in 1..Len(t) |-> IF mask[k] THEN values[MaskRank(mask, k)] ELSE t[k]]

\* ------------------------------------------------------ Jones calculus
CMul(a, b) == <<a[1] * b[1] - a[2] * b[2], a[1] * b[2] + a[2] * b[1]>>
CAdd(a, b) == <<a[1] + b[1], a[2] + b[2]>>

IdentityJM == [nan |-> FALSE, e |-> << <<1, 0>>, <<0, 0>>, <<0, 0>>, <<1, 0>> >>]
NaNJM      == [nan |-> TRUE,  e |-> << <<0, 0>>, <<0, 0>>, <<0, 0>>, <<0, 0>> >>]

\* A @ B for 2x2 complex matrices (row-major entries 11, 12, 21, 22)
MatMul(A, B) ==
    IF A.nan \/ B.nan THEN NaNJM
    ELSE [nan |-> FALSE,
          e |-> << CAdd(CMul(A.e[1], B.e[1]), CMul(A.e[2], B.e[3])),
                   CAdd(CMul(A.e[1], B.e[2]), CMul(A.e[2], B.e[4])),
                   CAdd(CMul(A.e[3], B.e[1]), CMul(A.e[4], B.e[3])),
                   CAdd(CMul(A.e[3], B.e[2]), CMul(A.e[4], B.e[4])) >>]

CosQ(k) == CASE k % 4 = 0 -> 1 [] k % 4 = 1 -> 0 [] k % 4 = 2 -> -1 [] OTHER -> 0
SinQ(k) == CASE k % 4 = 0 -> 0 [] k % 4 = 1 -> 1 [] k % 4 = 2 -> 0 [] OTHER -> -1

\* ray direction -> (direction, first transverse vector, second transverse vector)
calc_rayDir(dir) ==
    CASE dir = "z" -> << <<1, 0, 0>>, <<0, 1, 0>>, <<0, 0, 1>> >>
      [] OTHER     -> << <<0, 1, 0>>, <<0, 0, 1>>, <<1, 0, 0>> >>

\* twice the azimuth of the projected optic axis, in quarter turns
AzimuthQ(p1, p2) ==
    IF p1 = 0 THEN 0
    ELSE IF p2 = 0 THEN 2
    ELSE IF (p1 > 0) = (p2 > 0) THEN 1 ELSE 3

\* Jones matrix of one voxel segment: a linear retarder whose retardance is
\* proportional to Delta_n * ell and whose azimuth is that of the optic axis
\* projected on the plane transverse to the ray
voxRayJM(Delta_n, opticAxis, d2, rayDir, ell) ==
    IF d2 = 0 THEN NaNJM
    ELSE LET k == Delta_n * ell
             q == AzimuthQ(Dot(opticAxis, rayDir[2]), Dot(opticAxis, rayDir[3]))
             c == CosQ(k)
             s == SinQ(k)
         IN [nan |-> FALSE,
             e |-> << <<c, s * CosQ(q)>>, <<0, s * SinQ(q)>>,
                      <<0, s * SinQ(q)>>, <<c, -(s * CosQ(q))>> >>]

\* retardance in units of pi (relative phase of the two eigen-components)
calc_retardance(JM) ==
    IF JM.nan THEN -1
    ELSE IF JM.e[2] = <<0, 0>> /\ JM.e[3] = <<0, 0>> /\ JM.e[1] = JM.e[4] THEN 0
    ELSE 1

\* azimuth class of the fast axis, insensitive to a global phase
calc_azimuth(JM) ==
    IF JM.nan THEN -1
    ELSE IF JM.e[2] = <<0, 0>> /\ JM.e[3] = <<0, 0>> THEN 0
    ELSE IF JM.e[2] = JM.e[3] THEN 1
    ELSE 2

\* ------------------------------------------------------------- volumes
\* A voxel holds the four channels of voxel_parameters[:, z, y, x]:
\* channel 0 is dn, channels 1-3 are axis / sqrt(d2).
Voxel(dn, axis, d2) == [dn |-> dn, axis |-> axis, d2 |-> d2]
ZeroVoxel == Voxel(0, <<0, 0, 0>>, 1)

IsUnitAxis(v) == v.d2 > 0 /\ Dot(v.axis, v.axis) = v.d2

\* a / norm_A: the vector a divided by its own norm (0 / 0 when a = 0)
Normalized(a) == [axis |-> a, d2 |-> Dot(a, a)]

\* a volume is indexed [z + 1][y + 1][x + 1]; "None" is the empty sequence
NoVolume == <<>>
VolumeOf(shape, f(_, _, _)) ==
    [z \in 1..shape[1] |-> [y \in 1..shape[2] |-> [x \in 1..shape[3] |->
        f(z - 1, y - 1, x - 1)]]]

Zeros(z, y, x) == ZeroVoxel
torch_zeros(shape) == VolumeOf(shape, Zeros)

\* Values in units of 0.004 (birefringence) and of voxels (lengths).
PlaneDeltaN     == 25
EllipsoidDeltaN == 25
z_offset        == 4

\* The draws of torch.FloatTensor.uniform_: (Delta_n, a_0, a_1, a_2) with
\* Delta_n in [0, .01) and a_i in [-5, 5); draw number seed * (pos + 1).
RandomDraws ==
    << [dn |-> 1, a |-> <<0, 1, 0>>], [dn |-> 1, a |-> <<0, 1, 1>>],
       [dn |-> 0, a |-> <<1, 0, 0>>], [dn |-> 1, a |-> <<0, 0, 0>>] >>

RandomDraw(seed, pos) == RandomDraws[((seed * (pos + 1)) % Len(RandomDraws)) + 1]

\* one element of generate_random_volume: (Delta_n, a / norm_A)
RandomVoxel(seed, pos) ==
    LET d == RandomDraw(seed, pos)
        n == Normalized(d.a)
    IN Voxel(d.dn, n.axis, n.d2)

generate_random_volume(volume_shape, seed) ==
    LET f(z, y, x) ==
            RandomVoxel(seed, (z * volume_shape[2] + y) * volume_shape[3] + x)
    IN VolumeOf(volume_shape, f)

\* np.linspace(0, z_size - 1, n_planes * 2).astype(int)
z_ranges(z_size, n_planes) ==
    [i \in 1..(2 * n_planes) |-> ((i - 1) * (z_size - 1)) \div (2 * n_planes - 1)]

generate_planes_volume(volume_shape, n_planes, seed) ==
    LET z_size == volume_shape[1]
        zr     == z_ranges(z_size, n_planes)
        one(z, y, x) ==
            IF z = z_size \div 2 + z_offset
            THEN Voxel(PlaneDeltaN, <<1, 0, 0>>, 1) ELSE ZeroVoxel
        InPlane(z, z_ix) == zr[2 * z_ix + 1] <= z /\ z < zr[2 * z_ix + 2]
        many(z, y, x) ==
            IF \E z_ix \in 0..(n_planes - 1) : InPlane(z, z_ix)
            THEN RandomVoxel(seed, CHOOSE z_ix \in 0..(n_planes - 1) : InPlane(z, z_ix))
            ELSE ZeroVoxel
    IN IF n_planes = 1
       THEN IF z_size \div 2 + z_offset >= z_size
            THEN [ok |-> FALSE, vol |-> NoVolume]
            ELSE [ok |-> TRUE, vol |-> VolumeOf(volume_shape, one)]
       ELSE [ok |-> TRUE, vol |-> VolumeOf(volume_shape, many)]

\* radius2 is twice the radius; center = [.5, .5, .5] and alpha = 0.1
generate_ellipsoid_volume(volume_shape, radius2, delta_n) ==
    LET P  == radius2[1] * radius2[2] * radius2[3]
        w  == <<radius2[2] * radius2[3], radius2[1] * radius2[3], radius2[1] * radius2[2]>>
        f(z, y, x) ==
            LET kk == volume_shape[1] \div 2 - z
                jj == volume_shape[2] \div 2 - y
                ii == volume_shape[3] \div 2 - x
                S  == kk * kk * w[1] * w[1] + jj * jj * w[2] * w[2] + ii * ii * w[3] * w[3]
                \* abs(ellipsoid_border - alpha) <= 1, times 10 * P * P
                ellipsoid_border_mask ==
                    /\ 40 * S - P * P <= 10 * P * P
                    /\ P * P - 40 * S <= 10 * P * P
                normal == <<kk * w[1], jj * w[2], ii * w[3]>>
                \* norm_factor[norm_factor==0] = 1
                norm_factor2 == IF Dot(normal, normal) = 0 THEN 1 ELSE Dot(normal, normal)
            IN IF ellipsoid_border_mask
               THEN Voxel(delta_n, normal, norm_factor2)
               ELSE ZeroVoxel
    IN VolumeOf(volume_shape, f)

InitModes == {"zeros", "random", "1planes", "2planes", "planes", "ellipsoid",
              "single_voxel"}
\* 'planes' in init_mode
HasPlanes(init_mode) == init_mode \in {"1planes", "2planes", "planes"}
\* int(init_mode[0]); 0 stands for the ValueError of a non-digit
FirstCharInt(init_mode) ==
    CASE init_mode = "1planes" -> 1 [] init_mode = "2planes" -> 2 [] OTHER -> 0

\* VolumeLFM(optic_config, [], simul_type): a volume whose voxel_parameters
\* no preset has set yet
VolumeLFM == NoVolume

\* init_volume(volume_ref, init_mode): the voxel_parameters of the volume it
\* returns, or ok = FALSE when it raises
init_volume(volume_ref, init_mode, volume_shape, seed) ==
    LET ref == IF volume_ref = NoVolume THEN VolumeLFM ELSE volume_ref
        planes == generate_planes_volume(volume_shape, FirstCharInt(init_mode), seed)
        set == CASE init_mode = "zeros" -> [ok |-> TRUE, vol |-> torch_zeros(volume_shape)]
                 [] init_mode = "random" ->
                        [ok |-> TRUE, vol |-> generate_random_volume(volume_shape, seed)]
                 [] HasPlanes(init_mode) ->
                        IF FirstCharInt(init_mode) = 0
                        THEN [ok |-> FALSE, vol |-> NoVolume]
                        ELSE planes
                 [] init_mode = "ellipsoid" ->
                        [ok |-> TRUE,
                         vol |-> generate_ellipsoid_volume(volume_shape, <<10, 15, 15>>,
                                                           EllipsoidDeltaN)]
                 [] OTHER -> [ok |-> TRUE, vol |-> ref]
    IN \* volume_ref.voxel_parameters.to(...) raises on an unset attribute
       IF set.ok /\ set.vol # NoVolume THEN set ELSE [ok |-> FALSE, vol |-> NoVolume]

\* ------------------------------------------------------------ geometry
\* What compute_rays_geometry leaves in the ray tracer, for one micro-lens:
\* per ray its pixel, its (z, y, x) collisions in traversal order, the length
\* of each collision (rows padded with 0 to the longest ray) and its direction.
RayGeometries ==
    { [indexes   |-> << <<0, 0>>, <<1, 1>> >>,
       colli     |-> << << <<0, 0, 0>>, <<1, 0, 0>> >>, << <<1, 0, 0>>, <<0, 0, 0>> >> >>,
       lengths   |-> << <<1, 1>>, <<1, 1>> >>,
       direction |-> <<"z", "z">>],
      [indexes   |-> << <<0, 1>>, <<1, 0>>, <<1, 1>> >>,
       colli     |-> << << <<0, 0, 0>> >>,
                        << <<0, 1, 1>>, <<1, 1, 1>> >>,
                        << <<1, 0, 1>>, <<0, 0, 0>> >> >>,
       lengths   |-> << <<1, 0>>, <<1, 2>>, <<2, 1>> >>,
       direction |-> <<"z", "y", "z">>],
      [indexes   |-> << <<0, 0>>, <<0, 1>> >>,
       colli     |-> << << >>, << <<1, 0, 0>> >> >>,
       lengths   |-> << <<0>>, <<1>> >>,
       direction |-> <<"z", "y">>] }

VolumeShapes == { <<2, 4, 4>>, <<2, 5, 3>>, <<9, 3, 3>> }

\* voxels a stored volume may hold at its two central voxels
StoredVoxels ==
    { ZeroVoxel, Voxel(1, <<0, 1, 0>>, 1), Voxel(1, <<0, 1, 1>>, 2),
      Voxel(3, <<0, 1, 0>>, 1) }

\* a volume loaded from storage: zero but for the voxels (0, cy, cx), (1, cy, cx)
StoredVolume(shape, A, B) ==
    LET f(z, y, x) ==
            IF y = shape[2] \div 2 /\ x = shape[3] \div 2
            THEN (IF z = 0 THEN A ELSE IF z = 1 THEN B ELSE ZeroVoxel)
            ELSE ZeroVoxel
    IN VolumeOf(shape, f)

VARIABLES
    optic_config,            \* n_micro_lenses, n_voxels_per_ml, n_pixels_per_mla, volume_shape
    voxel_span_per_ml,
    vox_ctr_idx,
    ray_valid_indexes,
    ray_vol_colli_indexes,
    ray_vol_colli_lengths,
    ray_valid_direction,
    voxel_parameters,        \* the volume's tensor, NoVolume before any volume exists
    last_call,               \* the latest init_volume call and how it ended
    pc,                      \* where the call in progress stands
    ml_ii, ml_jj,
    full_img_r, full_img_a,
    full_img_row_r, full_img_row_a,
    micro_lens_offset,       \* the offset inside ret_and_azim_images
    m,                       \* the step of calc_cummulative_JM_of_ray
    JM_list,
    effective_JM,
    ret_image, azim_image,   \* the tile ret_and_azim_images returned last
    n_calls,                 \* invocations of ret_and_azim_images in this pass
    backend,                 \* ForwardModel.backend
    ret_img, azim_img,       \* ForwardModel.ret_img, ForwardModel.azim_img
    img_list,                \* ForwardModel.img_list
    fm_call,                 \* the forward_model call in progress and its position
    last_pair                \* what the latest completed ray trace returned

geometry == <<optic_config, voxel_span_per_ml, vox_ctr_idx, ray_valid_indexes,
              ray_vol_colli_indexes, ray_vol_colli_lengths, ray_valid_direction>>
volume   == <<voxel_parameters>>
tiler    == <<ml_ii, ml_jj, full_img_r, full_img_a, full_img_row_r, full_img_row_a>>
tile     == <<micro_lens_offset, m, JM_list, effective_JM, ret_image, azim_image>>
forward  == <<backend, ret_img, azim_img, img_list, fm_call, last_pair>>
vars     == <<geometry, volume, last_call, pc, tiler, tile, n_calls, forward>>

n_rays  == Len(ray_valid_indexes)
\* self.ray_vol_colli_lengths.shape[1]
max_len == Len(ray_vol_colli_lengths[1])
n_ml_half == floor_half(optic_config.n_micro_lenses)

NoImage == <<>>
NoCall  == [init_mode |-> "none", outcome |-> "none", fresh |-> FALSE]
\* no forward_model call is in progress
NoForwardCall == [at |-> "none", intensity |-> FALSE]
\* BackEnds
BackEnds == {"numpy", "pytorch"}

\* ---------------------------------------------------- the ray accumulator
InRange(i, size) == i >= -size /\ i < size
Wrap(i, size) == IF i < 0 THEN i + size ELSE i

\* voxel_parameters[:, z, y, x] for one index triple (negative indexes wrap)
At(vp, idx) ==
    vp[Wrap(idx[1], Len(vp)) + 1][Wrap(idx[2], Len(vp[1])) + 1][Wrap(idx[3], Len(vp[1][1])) + 1]

IndexOk(vp, idx) ==
    /\ InRange(idx[1], Len(vp))
    /\ InRange(idx[2], Len(vp[1]))
    /\ InRange(idx[3], Len(vp[1][1]))

rays_with_voxels_early(step) ==
    [k \in 1..n_rays |-> Len(ray_vol_colli_indexes[k]) > step + 1]

\* rays_with_voxels = [len(vx) > m for vx in voxels_of_segs]
rays_with_voxels(step) ==
    [k \in 1..n_rays |-> Len(ray_vol_colli_indexes[k]) > step]

\* the volume indexes the rays of this step gather, one per active ray
GatherIndexes(off, step) ==
    LET mask == rays_with_voxels(step)
        vox  == MaskSelect([k \in 1..n_rays |->
                               IF mask[k] THEN ray_vol_colli_indexes[k][step + 1]
                               ELSE <<0, 0, 0>>], mask)
    IN [r \in 1..Len(vox) |-> <<vox[r][1], vox[r][2] + off[1], vox[r][3] + off[2]>>]

\* my_params == 0, on the four channels of one voxel
ChannelsZero(v) == v.dn = 0 /\ v.d2 # 0 /\ v.axis = <<0, 0, 0>>

\* the batched voxRayJM call of one step
voxRayJM_batch(Delta_n, opticAxis, rayDir, ell) ==
    [s \in 1..Len(Delta_n) |->
        voxRayJM(Delta_n[s], opticAxis[s].axis, opticAxis[s].d2, rayDir[s], ell[s])]

\* valid_voxel = Delta_n != 0
valid_voxel_any(Delta_n) == [r \in 1..Len(Delta_n) |-> TRUE]

valid_voxel(Delta_n) == [r \in 1..Len(Delta_n) |-> Delta_n[r] # 0]

\* ell = ell_in_voxels[rays_with_voxels, m]
StepEll_unmasked(step) ==
    LET n == Len(MaskPositions(rays_with_voxels(step), 1))
    IN [r \in 1..n |-> ray_vol_colli_lengths[r][step + 1]]

StepEll(step) ==
    MaskSelect([k \in 1..n_rays |-> ray_vol_colli_lengths[k][step + 1]],
               rays_with_voxels(step))

\* one iteration of the loop of calc_cummulative_JM_of_ray: the matrices JM
\* appended to JM_list, one row per ray that still has a voxel at this step
StepJM(vp, off, step) ==
    LET mask == rays_with_voxels(step)
        ell  == StepEll(step)
        idx  == GatherIndexes(off, step)
        my_params == [r \in 1..Len(idx) |-> At(vp, idx[r])]
        JM   == [r \in 1..Len(idx) |-> IdentityJM]
        Delta_n == [r \in 1..Len(idx) |-> my_params[r].dn]
        opticAxis == [r \in 1..Len(idx) |->
                         [axis |-> my_params[r].axis, d2 |-> my_params[r].d2]]
        rayDir == [k \in 1..n_rays |-> calc_rayDir(ray_valid_direction[k])]
        filtered_rayDir == MaskSelect(rayDir, mask)
    IN IF (\A r \in 1..Len(idx) : ChannelsZero(my_params[r]))
          \/ (\A r \in 1..Len(idx) : ~valid_voxel(Delta_n)[r])
       THEN JM
       ELSE MaskAssign(JM, valid_voxel(Delta_n),
                voxRayJM_batch(MaskSelect(Delta_n, valid_voxel(Delta_n)),
                               MaskSelect(opticAxis, valid_voxel(Delta_n)),
                               MaskSelect(filtered_rayDir, valid_voxel(Delta_n)),
                               MaskSelect(ell, valid_voxel(Delta_n))))

StepIndexOk(vp, off, step) ==
    \A r \in 1..Len(GatherIndexes(off, step)) : IndexOk(vp, GatherIndexes(off, step)[r])

\* rayJM(JM_list, voxels_of_segs): per ray, the running product multiplied on
\* the right by each step's matrix, for the rays that have a voxel at that step
RECURSIVE rayJM_from(_, _, _)
rayJM_from(list, ix, product) ==
    IF ix > Len(list) THEN product
    ELSE LET mask == rays_with_voxels(ix - 1)
             cur  == MaskSelect(product, mask)
         IN rayJM_from(list, ix + 1,
                MaskAssign(product, mask,
                           [r \in 1..Len(cur) |-> MatMul(cur[r], list[ix][r])]))

rayJM(list) == rayJM_from(list, 1, [k \in 1..n_rays |-> IdentityJM])

\* ------------------------------------------------------------ one tile
zeros_image(n) == [i \in 1..n |-> [j \in 1..n |-> 0]]

WritePixels_transposed(image, values) ==
    [i \in 1..Len(image) |-> [j \in 1..Len(image[i]) |->
        LET hits == {k \in 1..n_rays : ray_valid_indexes[k] = <<j - 1, i - 1>>}
        IN IF hits = {} THEN image[i][j]
           ELSE values[CHOOSE k \in hits : \A h \in hits : h <= k]]]

\* for ray_ix, (i, j) in enumerate(ray_valid_indexes): image[i, j] = values[ray_ix]
WritePixels(image, values) ==
    [i \in 1..Len(image) |-> [j \in 1..Len(image[i]) |->
        LET hits == {k \in 1..n_rays : ray_valid_indexes[k] = <<i - 1, j - 1>>}
        IN IF hits = {} THEN image[i][j]
           ELSE values[CHOOSE k \in hits : \A h \in hits : h <= k]]]

\* micro_lens_offset as ret_and_azim_images hands it to the accumulator
TileOffset(offset) ==
    << offset[1] + vox_ctr_idx[2] - n_ml_half, offset[2] + vox_ctr_idx[3] - n_ml_half >>

\* current_offset of the micro-lens (ml_ii, ml_jj)
CurrentOffset_shifted(ii, jj) ==
    << optic_config.n_voxels_per_ml * (ii + 1), optic_config.n_voxels_per_ml * jj >>

CurrentOffset(ii, jj) ==
    << optic_config.n_voxels_per_ml * ii, optic_config.n_voxels_per_ml * jj >>

\* calc_cummulative_JM_of_ray as a function of its arguments
RECURSIVE JMListFrom(_, _, _)
JMListFrom(vp, off, step) ==
    IF step >= max_len THEN <<>>
    ELSE <<StepJM(vp, off, step)>> \o JMListFrom(vp, off, step + 1)

calc_cummulative_JM_of_ray(vp, off) == rayJM(JMListFrom(vp, off, 0))

\* ret_and_azim_images(volume_in, micro_lens_offset) as a function of its arguments
ret_and_azim_images(vp, offset) ==
    LET eff == calc_cummulative_JM_of_ray(vp, TileOffset(offset))
        blank == zeros_image(optic_config.n_pixels_per_mla)
    IN [ret  |-> WritePixels(blank, [k \in 1..n_rays |-> calc_retardance(eff[k])]),
        azim |-> WritePixels(blank, [k \in 1..n_rays |-> calc_azimuth(eff[k])])]

\* torch.cat((a, b), 0) and torch.cat((a, b), 1) of 2-D tensors
torch_cat0_reversed(a, b) == b \o a

torch_cat0(a, b) == a \o b
torch_cat1(a, b) == [r \in 1..Len(a) |-> a[r] \o b[r]]

\* assert voxel_span_per_ml * n_micro_lenses < volume_shape[0], where
\* volume_shape = voxel_parameters.shape[2:]
FitCheck_per_lens(vp) == voxel_span_per_ml < Len(vp[1])

FitCheck(vp) == voxel_span_per_ml * optic_config.n_micro_lenses < Len(vp[1])

\* what a step of the accumulator leaves in the volume: it only reads it
VolumeAfterStep_inplace(vp, off, step) ==
    LET idx == GatherIndexes(off, step)
        hit(z, y, x) == \E r \in 1..Len(idx) :
                           <<Wrap(idx[r][1], Len(vp)), Wrap(idx[r][2], Len(vp[1])),
                             Wrap(idx[r][3], Len(vp[1][1]))>> = <<z, y, x>>
    IN [z \in 1..Len(vp) |-> [y \in 1..Len(vp[1]) |-> [x \in 1..Len(vp[1][1]) |->
           IF hit(z - 1, y - 1, x - 1) THEN ZeroVoxel ELSE vp[z][y][x]]]]

VolumeAfterStep(vp, off, step) == vp

\* -------------------------------------------------------------- actions
\* ForwardModel.__init__: the placeholders
ForwardModel_init ==
    /\ ret_img = NoImage
    /\ azim_img = NoImage
    /\ img_list = NoImage
    /\ fm_call = NoForwardCall
    /\ last_pair = <<>>

\* the ray tracer and its geometry after construction
RayTraceLFM_init ==
    /\ \E n \in 1..MaxMicroLenses, v \in 1..MaxVoxelsPerMl, shape \in VolumeShapes :
          /\ optic_config = [n_micro_lenses |-> n, n_voxels_per_ml |-> v,
                             n_pixels_per_mla |-> PixelsPerMl, volume_shape |-> shape]
          /\ vox_ctr_idx = <<shape[1] \div 2, shape[2] \div 2, shape[3] \div 2>>
    /\ voxel_span_per_ml \in 1..MaxVoxelSpan
    /\ \E g \in RayGeometries :
          /\ ray_valid_indexes = g.indexes
          /\ ray_vol_colli_indexes = g.colli
          /\ ray_vol_colli_lengths = g.lengths
          /\ ray_valid_direction = g.direction
    /\ voxel_parameters = NoVolume
    /\ last_call = NoCall
    /\ pc = "idle"
    /\ ml_ii = 0 /\ ml_jj = 0
    /\ full_img_r = NoImage /\ full_img_a = NoImage
    /\ full_img_row_r = NoImage /\ full_img_row_a = NoImage
    /\ micro_lens_offset = <<0, 0>>
    /\ m = 0
    /\ JM_list = <<>>
    /\ effective_JM = <<>>
    /\ ret_image = NoImage /\ azim_image = NoImage
    /\ n_calls = 0

\* the ray tracer on its own (a torch module), no ForwardModel around it
Init ==
    /\ RayTraceLFM_init
    /\ backend = "pytorch"
    /\ ForwardModel_init

\* the random presets draw; the others ignore the seed
Seeded(init_mode) == init_mode \in {"random", "2planes"}

\* init_volume(volume_ref, init_mode) returns a volume; volume_ref is a new
\* VolumeLFM (fresh) or the volume at hand
InitVolume(init_mode, seed, fresh) ==
    LET res == init_volume(IF fresh THEN NoVolume ELSE voxel_parameters, init_mode,
                           optic_config.volume_shape, seed)
    IN /\ pc = "idle"
       /\ seed = 0 \/ Seeded(init_mode)
       /\ fresh \/ voxel_parameters # NoVolume
       /\ res.ok
       /\ voxel_parameters' = res.vol
       /\ last_call' = [init_mode |-> init_mode, outcome |-> "returned", fresh |-> fresh]
       /\ pc' = "init_returned"
       /\ UNCHANGED <<forward, geometry, tiler, tile, n_calls>>

\* init_volume(volume_ref, init_mode) raises
InitVolumeRaises(init_mode, seed, fresh) ==
    LET res == init_volume(IF fresh THEN NoVolume ELSE voxel_parameters, init_mode,
                           optic_config.volume_shape, seed)
    IN /\ pc = "idle"
       /\ seed = 0 \/ Seeded(init_mode)
       /\ fresh \/ voxel_parameters # NoVolume
       /\ ~res.ok
       /\ last_call' = [init_mode |-> init_mode, outcome |-> "raised", fresh |-> fresh]
       /\ pc' = "init_raised"
       /\ UNCHANGED <<forward, geometry, volume, tiler, tile, n_calls>>

\* a volume read from storage replaces the current one
LoadVolume(A, B) ==
    /\ pc = "idle"
    /\ voxel_parameters' = StoredVolume(optic_config.volume_shape, A, B)
    /\ UNCHANGED <<forward, geometry, last_call, pc, tiler, tile, n_calls>>

\* ray_trace_through_volume(volume_in): the assertion fails
RayTraceAssertionError ==
    /\ pc = "idle"
    /\ voxel_parameters # NoVolume
    /\ ~FitCheck(voxel_parameters)
    /\ pc' = "assert_failed"
    /\ UNCHANGED <<forward, geometry, volume, last_call, tiler, tile, n_calls>>

\* ray_trace_through_volume(volume_in): the assertion passes, the loops start
RayTraceBegin ==
    /\ pc = "idle"
    /\ voxel_parameters # NoVolume
    /\ FitCheck(voxel_parameters)
    /\ pc' = "tile"
    /\ ml_ii' = -n_ml_half
    /\ ml_jj' = -n_ml_half
    /\ full_img_r' = NoImage /\ full_img_a' = NoImage
    /\ full_img_row_r' = NoImage /\ full_img_row_a' = NoImage
    /\ UNCHANGED <<forward, geometry, volume, last_call, tile, n_calls>>

\* ret_and_azim_images is invoked for (ml_ii, ml_jj), up to the accumulator's loop
TileBegin ==
    /\ pc = "tile"
    /\ n_calls' = n_calls + 1
    /\ micro_lens_offset' = TileOffset(CurrentOffset(ml_ii, ml_jj))
    /\ ret_image' = zeros_image(optic_config.n_pixels_per_mla)
    /\ azim_image' = zeros_image(optic_config.n_pixels_per_mla)
    /\ m' = 0
    /\ JM_list' = <<>>
    /\ effective_JM' = <<>>
    /\ pc' = "acc"
    /\ UNCHANGED <<forward, geometry, volume, last_call, tiler>>

\* one iteration of the accumulator's loop over m
AccStep ==
    /\ pc = "acc"
    /\ m < max_len
    /\ StepIndexOk(voxel_parameters, micro_lens_offset, m)
    /\ JM_list' = Append(JM_list, StepJM(voxel_parameters, micro_lens_offset, m))
    /\ voxel_parameters' = VolumeAfterStep(voxel_parameters, micro_lens_offset, m)
    /\ m' = m + 1
    /\ UNCHANGED <<forward, geometry, last_call, pc, tiler, micro_lens_offset,
                   effective_JM, ret_image, azim_image, n_calls>>

\* the gather of this iteration raises IndexError, which ends the pass
AccIndexError ==
    /\ pc = "acc"
    /\ m < max_len
    /\ ~StepIndexOk(voxel_parameters, micro_lens_offset, m)
    /\ pc' = "index_error"
    /\ UNCHANGED <<forward, geometry, volume, last_call, tiler, tile, n_calls>>

\* after the loop: rayJM, the two observables, the pixels of the tile
TileEnd ==
    /\ pc = "acc"
    /\ m = max_len
    /\ effective_JM' = rayJM(JM_list)
    /\ ret_image' = WritePixels(ret_image,
                        [k \in 1..n_rays |-> calc_retardance(rayJM(JM_list)[k])])
    /\ azim_image' = WritePixels(azim_image,
                        [k \in 1..n_rays |-> calc_azimuth(rayJM(JM_list)[k])])
    /\ pc' = "assemble"
    /\ UNCHANGED <<forward, geometry, volume, last_call, tiler, micro_lens_offset, m, JM_list,
                   n_calls>>

\* the tile joins its row, a finished row joins the image, the loops advance
Assemble ==
    LET row_r == IF full_img_row_r = NoImage THEN ret_image
                 ELSE torch_cat0(full_img_row_r, ret_image)
        row_a == IF full_img_row_a = NoImage THEN azim_image
                 ELSE torch_cat0(full_img_row_a, azim_image)
    IN /\ pc = "assemble"
       /\ IF ml_jj < n_ml_half
          THEN /\ ml_jj' = ml_jj + 1
               /\ full_img_row_r' = row_r /\ full_img_row_a' = row_a
               /\ pc' = "tile"
               /\ UNCHANGED <<ml_ii, full_img_r, full_img_a>>
          ELSE /\ full_img_r' = IF full_img_r = NoImage THEN row_r
                                ELSE torch_cat1(full_img_r, row_r)
               /\ full_img_a' = IF full_img_a = NoImage THEN row_a
                                ELSE torch_cat1(full_img_a, row_a)
               /\ full_img_row_r' = NoImage /\ full_img_row_a' = NoImage
               /\ ml_jj' = -n_ml_half
               /\ IF ml_ii < n_ml_half
                  THEN ml_ii' = ml_ii + 1 /\ pc' = "tile"
                  ELSE ml_ii' = ml_ii /\ pc' = "done"
       /\ UNCHANGED <<forward, geometry, volume, last_call, tile, n_calls>>

\* the call has returned or raised; its locals are gone
Return ==
    /\ pc \in {"done", "assert_failed", "index_error", "init_returned", "init_raised"}
    /\ pc' = "idle"
    /\ last_call' = NoCall
    /\ ml_ii' = 0 /\ ml_jj' = 0
    /\ full_img_r' = NoImage /\ full_img_a' = NoImage
    /\ full_img_row_r' = NoImage /\ full_img_row_a' = NoImage
    /\ micro_lens_offset' = <<0, 0>>
    /\ m' = 0
    /\ JM_list' = <<>>
    /\ effective_JM' = <<>>
    /\ ret_image' = NoImage /\ azim_image' = NoImage
    /\ n_calls' = 0
    /\ UNCHANGED <<forward, geometry, volume>>

Next ==
    \/ \E init_mode \in InitModes, seed \in 0..MaxSeed, fresh \in BOOLEAN :
          InitVolume(init_mode, seed, fresh)
    \/ \E init_mode \in InitModes, seed \in 0..MaxSeed, fresh \in BOOLEAN :
          InitVolumeRaises(init_mode, seed, fresh)
    \/ \E A \in StoredVoxels, B \in StoredVoxels : LoadVolume(A, B)
    \/ RayTraceAssertionError
    \/ RayTraceBegin
    \/ TileBegin
    \/ AccStep
    \/ AccIndexError
    \/ TileEnd
    \/ Assemble
    \/ Return

Spec == Init /\ [][Next]_vars

\* ---------------------------------------- ForwardModel (simulations.py)
\* the volumes handed to forward_model: any shape, zero but for one voxel
ForwardVolumes ==
    { StoredVolume(shape, A, ZeroVoxel) :
          shape \in VolumeShapes, A \in {ZeroVoxel, Voxel(1, <<0, 1, 1>>, 2)} }

\* img_list once the intensity trace has returned
IntensityImages == <<"img_list">>

\* self.ret_img = ret_image; self.azim_img = azim_image
AssignedPair_swapped(ret, azim) == <<azim, ret>>

AssignedPair(ret, azim) == <<ret, azim>>

\* a ForwardModel of either backend around the ray tracer
ForwardInit ==
    /\ RayTraceLFM_init
    /\ backend \in BackEnds
    /\ ForwardModel_init

\* forward_model(volume, intensity) is called: line 120 calls the ray tracer
ForwardModelCall(vol, intensity) ==
    /\ fm_call = NoForwardCall
    /\ pc = "idle"
    /\ voxel_parameters' = vol
    /\ fm_call' = [at |-> "trace", intensity |-> intensity]
    /\ UNCHANGED <<geometry, last_call, pc, tiler, tile, n_calls,
                   backend, ret_img, azim_img, img_list, last_pair>>

\* ray_trace_through_volume returns full_img_r, full_img_a
ForwardTraceReturns ==
    /\ fm_call.at = "trace"
    /\ pc = "done"
    /\ last_pair' = <<full_img_r, full_img_a>>
    /\ fm_call' = [fm_call EXCEPT !.at = "assign"]
    /\ UNCHANGED <<geometry, volume, last_call, pc, tiler, tile, n_calls,
                   backend, ret_img, azim_img, img_list>>

\* lines 121-122, and the test of line 124
ForwardAssign ==
    /\ fm_call.at = "assign"
    /\ ret_img' = AssignedPair(full_img_r, full_img_a)[1]
    /\ azim_img' = AssignedPair(full_img_r, full_img_a)[2]
    /\ fm_call' = [fm_call EXCEPT !.at = IF fm_call.intensity /\ backend = "numpy"
                                         THEN "intensity" ELSE "end"]
    /\ UNCHANGED <<geometry, volume, last_call, pc, tiler, tile, n_calls,
                   backend, img_list, last_pair>>

\* line 125: the second trace of the same volume returns the intensity images
ForwardIntensity ==
    /\ fm_call.at = "intensity"
    /\ img_list' = IntensityImages
    /\ fm_call' = [fm_call EXCEPT !.at = "end"]
    /\ UNCHANGED <<geometry, volume, last_call, pc, tiler, tile, n_calls,
                   backend, ret_img, azim_img, last_pair>>

\* line 125: the second trace raises (a tracer that takes no intensity argument)
ForwardIntensityRaises ==
    /\ fm_call.at = "intensity"
    /\ fm_call' = [fm_call EXCEPT !.at = "raised"]
    /\ UNCHANGED <<geometry, volume, last_call, pc, tiler, tile, n_calls,
                   backend, ret_img, azim_img, img_list, last_pair>>

\* line 120: the ray trace raises and forward_model lets the exception pass
ForwardTraceRaises ==
    /\ fm_call.at = "trace"
    /\ pc \in {"assert_failed", "index_error"}
    /\ fm_call' = [fm_call EXCEPT !.at = "raised"]
    /\ UNCHANGED <<geometry, volume, last_call, pc, tiler, tile, n_calls,
                   backend, ret_img, azim_img, img_list, last_pair>>

\* forward_model has returned or raised: its argument and the locals are gone
ForwardModelReturn ==
    /\ fm_call.at \in {"end", "raised"}
    /\ fm_call' = NoForwardCall
    /\ voxel_parameters' = NoVolume
    /\ pc' = "idle"
    /\ ml_ii' = 0 /\ ml_jj' = 0
    /\ full_img_r' = NoImage /\ full_img_a' = NoImage
    /\ full_img_row_r' = NoImage /\ full_img_row_a' = NoImage
    /\ micro_lens_offset' = <<0, 0>>
    /\ m' = 0
    /\ JM_list' = <<>>
    /\ effective_JM' = <<>>
    /\ ret_image' = NoImage /\ azim_image' = NoImage
    /\ n_calls' = 0
    /\ UNCHANGED <<geometry, last_call, backend, ret_img, azim_img, img_list, last_pair>>

ForwardNext ==
    \/ \E vol \in ForwardVolumes, intensity \in BOOLEAN : ForwardModelCall(vol, intensity)
    \/ RayTraceAssertionError
    \/ RayTraceBegin
    \/ TileBegin
    \/ AccStep
    \/ AccIndexError
    \/ TileEnd
    \/ Assemble
    \/ ForwardTraceReturns
    \/ ForwardAssign
    \/ ForwardIntensity
    \/ ForwardIntensityRaises
    \/ ForwardTraceRaises
    \/ ForwardModelReturn

ForwardSpec == ForwardInit /\ [][ForwardNext]_vars

\* ----------------------------------------------------------- properties
n_micro_lenses == optic_config.n_micro_lenses
pixels_per_ml  == optic_config.n_pixels_per_mla

InPass == pc \in {"tile", "acc", "assemble", "done", "assert_failed", "index_error"}

\* the voxel the k-th ray gathers at its segment number step, under off
VoxelOfRay(k, step, off) ==
    LET vx == ray_vol_colli_indexes[k][step + 1]
    IN At(voxel_parameters, <<vx[1], vx[2] + off[1], vx[3] + off[2]>>)

\* the per-voxel transform of the k-th ray's segment number step
TransformOfRay(k, step, off) ==
    LET v == VoxelOfRay(k, step, off)
    IN IF v.dn = 0 THEN IdentityJM
       ELSE voxRayJM(v.dn, v.axis, v.d2, calc_rayDir(ray_valid_direction[k]),
                     ray_vol_colli_lengths[k][step + 1])

\* T(0) T(1) ... T(last) of the k-th ray alone, entry first
RECURSIVE OrderedProduct(_, _, _)
OrderedProduct(k, step, off) ==
    IF step >= Len(ray_vol_colli_indexes[k]) THEN IdentityJM
    ELSE MatMul(TransformOfRay(k, step, off), OrderedProduct(k, step + 1, off))

PixelOf(image, k) == image[ray_valid_indexes[k][1] + 1][ray_valid_indexes[k][2] + 1]

RayIndexOk(k, step, off) ==
    LET vx == ray_vol_colli_indexes[k][step + 1]
    IN IndexOk(voxel_parameters, <<vx[1], vx[2] + off[1], vx[3] + off[2]>>)

RayAllZero(k, off) ==
    \A step \in 0..(Len(ray_vol_colli_indexes[k]) - 1) :
        RayIndexOk(k, step, off) /\ VoxelOfRay(k, step, off).dn = 0

\* two rays that cross the same two voxels in opposite order, alike otherwise
ReversedPair(k1, k2) ==
    /\ Len(ray_vol_colli_indexes[k1]) = 2
    /\ Len(ray_vol_colli_indexes[k2]) = 2
    /\ ray_vol_colli_indexes[k2][1] = ray_vol_colli_indexes[k1][2]
    /\ ray_vol_colli_indexes[k2][2] = ray_vol_colli_indexes[k1][1]
    /\ ray_vol_colli_lengths[k2][1] = ray_vol_colli_lengths[k1][2]
    /\ ray_vol_colli_lengths[k2][2] = ray_vol_colli_lengths[k1][1]
    /\ ray_valid_direction[k1] = ray_valid_direction[k2]

Commute(A, B) == MatMul(A, B) = MatMul(B, A)

\* C1: when voxel_span_per_ml * n_micro_lenses is not below the extent the
\* assertion reads (volume_shape[0]), the call ends in the assertion: no tile
\* was asked for, no accumulator step ran and no image, partial or whole, exists.
C1_FailsBeforeAnyTile ==
    (InPass /\ voxel_span_per_ml * n_micro_lenses >= Len(voxel_parameters[1]))
        => /\ pc = "assert_failed"
           /\ n_calls = 0
           /\ JM_list = <<>>
           /\ full_img_r = NoImage /\ full_img_a = NoImage
           /\ full_img_row_r = NoImage /\ full_img_row_a = NoImage
           /\ ret_image = NoImage /\ azim_image = NoImage

C1_Witness ==
    /\ pc = "assert_failed"
    /\ voxel_span_per_ml * n_micro_lenses >= Len(voxel_parameters[1])
    /\ n_calls = 0

\* C2: for a volume [4, Dz, Dy, Dx], when voxel_span_per_ml * n_micro_lenses is
\* not below Dy or not below Dx, the call fails before tiling begins.
C2_FitOnBothLateralAxes ==
    (InPass /\ (\/ voxel_span_per_ml * n_micro_lenses >= Len(voxel_parameters[1])
                \/ voxel_span_per_ml * n_micro_lenses >= Len(voxel_parameters[1][1])))
        => pc = "assert_failed" /\ n_calls = 0

\* C3: for every n_micro_lenses = n >= 1 that passes the fit check, both
\* returned images are (n * pixels_per_ml) x (n * pixels_per_ml), from n * n tiles.
C3_ImageShape ==
    pc = "done" =>
        /\ n_calls = n_micro_lenses * n_micro_lenses
        /\ Len(full_img_r) = n_micro_lenses * pixels_per_ml
        /\ Len(full_img_a) = n_micro_lenses * pixels_per_ml
        /\ \A r \in 1..Len(full_img_r) : Len(full_img_r[r]) = n_micro_lenses * pixels_per_ml
        /\ \A r \in 1..Len(full_img_a) : Len(full_img_a[r]) = n_micro_lenses * pixels_per_ml

\* C4: with n_micro_lenses = 1 the pair of images the tiler returns is the pair
\* ret_and_azim_images gives when called directly with micro_lens_offset [0, 0].
C4_SingleLensIsDirectTile ==
    (pc = "done" /\ n_micro_lenses = 1) =>
        /\ full_img_r = ret_and_azim_images(voxel_parameters, <<0, 0>>).ret
        /\ full_img_a = ret_and_azim_images(voxel_parameters, <<0, 0>>).azim

C4_Witness ==
    /\ pc = "done"
    /\ n_micro_lenses = 1
    /\ \E i \in 1..Len(full_img_r), j \in 1..Len(full_img_r) : full_img_r[i][j] # 0

\* C5: the effective matrix of every ray is the product of the transforms of
\* its own segments in traversal order, each built from its own voxel, length
\* and direction; two rays crossing the same two voxels in opposite order get
\* the same matrix exactly when the two transforms commute.
C5_OrderedProduct ==
    pc = "assemble" =>
        /\ \A k \in 1..n_rays : effective_JM[k] = OrderedProduct(k, 0, micro_lens_offset)
        /\ \A k1 \in 1..n_rays, k2 \in 1..n_rays :
              ReversedPair(k1, k2) =>
                  ((effective_JM[k1] = effective_JM[k2])
                      <=> Commute(TransformOfRay(k1, 0, micro_lens_offset),
                                  TransformOfRay(k1, 1, micro_lens_offset)))

C5_Witness ==
    /\ pc = "assemble"
    /\ \E k1 \in 1..n_rays, k2 \in 1..n_rays :
          /\ ReversedPair(k1, k2)
          /\ effective_JM[k1] # effective_JM[k2]
          /\ ~Commute(TransformOfRay(k1, 0, micro_lens_offset),
                      TransformOfRay(k1, 1, micro_lens_offset))

\* C6: a ray all of whose gathered voxels have Delta_n = 0 gets the identity
\* at every step it takes part in, the identity as effective matrix and
\* retardance 0, whatever the other rays of the batch cross.
C6_ZeroPathIsIdentity ==
    pc \in {"acc", "assemble"} =>
        \A k \in 1..n_rays :
            RayAllZero(k, micro_lens_offset) =>
                /\ \A ix \in 1..Len(JM_list) :
                      rays_with_voxels(ix - 1)[k] =>
                          JM_list[ix][MaskRank(rays_with_voxels(ix - 1), k)] = IdentityJM
                /\ pc = "assemble" =>
                      /\ effective_JM[k] = IdentityJM
                      /\ PixelOf(ret_image, k) = 0

C6_Witness ==
    /\ pc = "assemble"
    /\ \E k \in 1..n_rays, other \in 1..n_rays :
          /\ Len(ray_vol_colli_indexes[k]) = 2
          /\ RayAllZero(k, micro_lens_offset)
          /\ effective_JM[k] = IdentityJM
          /\ effective_JM[other] # IdentityJM

\* C7: the accumulator returns one matrix per ray, in the order of the rays;
\* the values of ray k land on the pixel ray_valid_indexes[k] of the tile and
\* the pixels that belong to no ray stay 0.
C7_OnePixelPerRay ==
    pc = "assemble" =>
        /\ Len(effective_JM) = n_rays
        /\ \A k \in 1..n_rays :
              /\ PixelOf(ret_image, k)
                    = calc_retardance(OrderedProduct(k, 0, micro_lens_offset))
              /\ PixelOf(azim_image, k)
                    = calc_azimuth(OrderedProduct(k, 0, micro_lens_offset))
        /\ \A i \in 1..pixels_per_ml, j \in 1..pixels_per_ml :
              (\A k \in 1..n_rays : ray_valid_indexes[k] # <<i - 1, j - 1>>)
                  => ret_image[i][j] = 0 /\ azim_image[i][j] = 0

C7_Witness ==
    /\ pc = "assemble"
    /\ \E k \in 1..n_rays : PixelOf(ret_image, k) # 0 /\ PixelOf(azim_image, k) # 0
    /\ \E k \in 1..n_rays : PixelOf(ret_image, k) = 0
    /\ \E i \in 1..pixels_per_ml, j \in 1..pixels_per_ml :
          \A k \in 1..n_rays : ray_valid_indexes[k] # <<i - 1, j - 1>>

\* C8: no step of a forward pass, from the call to its return, changes the
\* voxel values or the ray geometry.
C8_PassReadsOnly ==
    [][(pc \in {"tile", "acc", "assemble"}
          \/ (pc = "idle" /\ pc' \in {"tile", "assert_failed"}))
        => (voxel_parameters' = voxel_parameters /\ geometry' = geometry)]_vars

C8_Witness ==
    /\ pc = "done"
    /\ n_calls > 1
    /\ \E i \in 1..Len(full_img_r), j \in 1..Len(full_img_r) : full_img_r[i][j] # 0

RecognisedModes == {"zeros", "random", "1planes", "2planes", "ellipsoid"}

\* C9: init_volume with an init_mode that is not a recognised preset raises;
\* it returns no volume.
C9_UnknownPresetRaises ==
    (pc \in {"init_returned", "init_raised"} /\ last_call.init_mode \notin RecognisedModes)
        => pc = "init_raised"

VolumeInvariant(vp) ==
    \A z \in 1..Len(vp) : \A y \in 1..Len(vp[z]) : \A x \in 1..Len(vp[z][y]) :
        vp[z][y][x].dn # 0 => IsUnitAxis(vp[z][y][x])

\* C10: every volume a preset (zeros, random, planes, ellipsoid) produces has
\* a unit-length optic axis at every voxel whose birefringence is not 0.
C10_PresetVolumesHaveUnitAxes ==
    (pc = "init_returned" /\ last_call.init_mode \in RecognisedModes)
        => VolumeInvariant(voxel_parameters)

\* no channel of any voxel is NaN or inf: every axis was divided by a norm # 0
AllNumbers(vp) ==
    \A z \in 1..Len(vp) : \A y \in 1..Len(vp[z]) : \A x \in 1..Len(vp[z][y]) :
        vp[z][y][x].d2 # 0

\* C11: no generator divides an axis by a zero norm: where the vector to
\* normalize has norm 0 a neutral default takes its place, so a generated
\* volume holds no NaN or inf at any voxel.
C11_GeneratorsGuardZeroNorm ==
    (pc = "init_returned" /\ last_call.init_mode \in {"random", "2planes", "ellipsoid"})
        => AllNumbers(voxel_parameters)

\* C12: whenever no assignment is pending, ret_img and azim_img are both None
\* with no ray trace completed so far, or they are the pair the latest
\* completed ray trace returned; a forward_model call whose trace raised has
\* left them as they were.
C12_ImagesAreLatestCompletedTrace ==
    fm_call.at # "assign" =>
        \/ ret_img = NoImage /\ azim_img = NoImage /\ last_pair = <<>>
        \/ /\ ret_img # NoImage /\ azim_img # NoImage
           /\ <<ret_img, azim_img>> = last_pair

C12_Witness ==
    /\ fm_call.at = "raised"
    /\ pc \in {"assert_failed", "index_error"}
    /\ ret_img # NoImage
    /\ <<ret_img, azim_img>> = last_pair
    /\ \E i \in 1..Len(ret_img), j \in 1..Len(ret_img) : ret_img[i][j] # 0

\* the rays that have more than step segments
RaysLongerThan(step) == {k \in 1..n_rays : Len(ray_vol_colli_indexes[k]) > step}

\* the accumulated product of the k-th ray after the steps in list
ProductAfter(list, k) == rayJM(list)[k]

\* C13: step m of the accumulator processes exactly the rays with more than m
\* segments: each of them has its product multiplied by its own transform, the
\* product of every ray that has dropped out stays as it is, and the value
\* returned for a ray is its product after its last segment (the identity
\* for a ray with no segment).
C13_DroppedRaysAreFrozen ==
    [][/\ (pc = "acc" /\ pc' = "acc" /\ m' = m + 1) =>
            /\ Len(JM_list') = m + 1
            /\ Len(JM_list'[m + 1]) = Cardinality(RaysLongerThan(m))
            /\ \A k \in 1..n_rays :
                  IF k \in RaysLongerThan(m)
                  THEN ProductAfter(JM_list', k)
                          = MatMul(ProductAfter(JM_list, k),
                                   TransformOfRay(k, m, micro_lens_offset))
                  ELSE ProductAfter(JM_list', k) = ProductAfter(JM_list, k)
       /\ (pc = "acc" /\ pc' = "assemble") =>
            \A k \in 1..n_rays :
                /\ effective_JM'[k]
                      = ProductAfter(SubSeq(JM_list, 1, Len(ray_vol_colli_indexes[k])), k)
                /\ Len(ray_vol_colli_indexes[k]) = 0 => effective_JM'[k] = IdentityJM
      ]_vars

C13_Witness ==
    /\ pc = "assemble"
    /\ \E k \in 1..n_rays, other \in 1..n_rays :
          /\ Len(ray_vol_colli_indexes[k]) < Len(ray_vol_colli_indexes[other])
          /\ effective_JM[k] # IdentityJM
          /\ \E ix \in (Len(ray_vol_colli_indexes[k]) + 1)..Len(JM_list) :
                \E r \in 1..Len(JM_list[ix]) : JM_list[ix][r] # IdentityJM
    /\ \E k \in 1..n_rays : Len(ray_vol_colli_indexes[k]) < max_len

\* C14: for every micro-lens (ml_ii, ml_jj) the tiler visits, whatever
\* n_micro_lenses is, the lateral offset added to the rays' voxel coordinates
\* is n_voxels_per_ml * (ml_ii, ml_jj) + vox_ctr_idx[1:], and the z coordinate
\* is gathered without offset.
C14_OffsetIsStepPlusCentre ==
    pc = "acc" =>
        /\ micro_lens_offset
              = << optic_config.n_voxels_per_ml * ml_ii + vox_ctr_idx[2],
                   optic_config.n_voxels_per_ml * ml_jj + vox_ctr_idx[3] >>
        /\ m < max_len =>
              \A k \in 1..n_rays :
                  rays_with_voxels(m)[k] =>
                      GatherIndexes(micro_lens_offset, m)[MaskRank(rays_with_voxels(m), k)][1]
                          = ray_vol_colli_indexes[k][m + 1][1]

\* axes put in place of the axis of the voxels whose birefringence is 0:
\* NaN, the zero vector, a unit vector
ScrubAxes ==
    { [axis |-> <<0, 0, 0>>, d2 |-> 0], [axis |-> <<0, 0, 0>>, d2 |-> 1],
      [axis |-> <<0, 1, 1>>, d2 |-> 2] }

\* the volume that agrees with vp on channel 0 everywhere and on channels 1-3
\* where channel 0 # 0, and holds the axis a everywhere else
Scrubbed(vp, a) ==
    [z \in 1..Len(vp) |-> [y \in 1..Len(vp[z]) |-> [x \in 1..Len(vp[z][y]) |->
        IF vp[z][y][x].dn = 0 THEN Voxel(0, a.axis, a.d2) ELSE vp[z][y][x]]]]

\* C15: the axes of the voxels whose birefringence is 0 have no influence:
\* every volume that agrees with the one traced on channel 0 and, where
\* channel 0 # 0, on the axis gives the same effective matrix for every ray
\* and the same two images; voxRayJM is not evaluated on a voxel with
\* Delta_n = 0 (a NaN axis there leaves no NaN in the result).
C15_ZeroVoxelAxesAreIrrelevant ==
    pc = "assemble" =>
        \A a \in ScrubAxes :
            LET other == Scrubbed(voxel_parameters, a)
            IN /\ effective_JM = calc_cummulative_JM_of_ray(other, micro_lens_offset)
               /\ ret_image
                     = ret_and_azim_images(other, CurrentOffset(ml_ii, ml_jj)).ret
               /\ azim_image
                     = ret_and_azim_images(other, CurrentOffset(ml_ii, ml_jj)).azim

C15_Witness ==
    /\ pc = "assemble"
    /\ \E k \in 1..n_rays, step \in 0..(max_len - 1) :
          /\ step < Len(ray_vol_colli_indexes[k])
          /\ VoxelOfRay(k, step, micro_lens_offset).dn = 0
          /\ VoxelOfRay(k, step, micro_lens_offset).axis # <<0, 0, 0>>
          /\ effective_JM[k] # IdentityJM
          /\ ~effective_JM[k].nan

\* the micro-lens indexes of both loops
LensRange == (-n_ml_half)..n_ml_half

\* the tile of the micro-lens (ii, jj), from the volume, the geometry and the
\* offset of that micro-lens alone
TileOf(ii, jj) == ret_and_azim_images(voxel_parameters, CurrentOffset(ii, jj))

\* image is the tiles placed by micro-lens index: jj along dim 0, ii along dim 1
MergedByIndex(image, which) ==
    /\ Len(image) = (2 * n_ml_half + 1) * pixels_per_ml
    /\ \A r \in 1..Len(image) : Len(image[r]) = (2 * n_ml_half + 1) * pixels_per_ml
    /\ \A ii \in LensRange, jj \in LensRange :
          \A i \in 1..pixels_per_ml, j \in 1..pixels_per_ml :
              image[(jj + n_ml_half) * pixels_per_ml + i][(ii + n_ml_half) * pixels_per_ml + j]
                  = (IF which = "ret" THEN TileOf(ii, jj).ret ELSE TileOf(ii, jj).azim)[i][j]

InsideVolume(vp, idx) ==
    /\ 0 <= idx[1] /\ idx[1] < Len(vp)
    /\ 0 <= idx[2] /\ idx[2] < Len(vp[1])
    /\ 0 <= idx[3] /\ idx[3] < Len(vp[1][1])

\* C17: in a pass that got through the fit check, for every tile and every
\* segment of a ray whose own coordinate is inside the volume, the index the
\* accumulator gathers, (z, y + offset[0], x + offset[1]), is inside the volume
\* on each axis: none is past the end and none is negative.
C17_GatherStaysInsideVolume ==
    (pc = "acc" /\ m < max_len) =>
        \A k \in 1..n_rays :
            (/\ rays_with_voxels(m)[k]
             /\ InsideVolume(voxel_parameters, ray_vol_colli_indexes[k][m + 1]))
                => InsideVolume(voxel_parameters,
                       GatherIndexes(micro_lens_offset, m)[MaskRank(rays_with_voxels(m), k)])

====
